---- MODULE Spec2Model ----
(***************************************************************************)
(* Model of the trim-v1 energy pipeline: the two ETL stages                *)
(* (transform_and_load.py, aggregate_daily.py) writing to the document     *)
(* store, and the read API (main.py) querying it.                          *)
(*                                                                         *)
(* Representation.                                                         *)
(*  - An instant (pandas Timestamp / datetime) is the number of minutes    *)
(*    since 2024-01-01 00:00.                                              *)
(*  - A current is a natural number of amperes.                            *)
(*  - x / 1000 and x / 60 are exact: a power is held in units of 1/1000 kW *)
(*    (KWDen) and an energy in units of 1/60000 kWh (KWhDen), so that the  *)
(*    arithmetic of the model is rational arithmetic, not IEEE-754.        *)
(*  - A document is a function from field names to values; a collection is *)
(*    a bag of documents (the store-assigned _id is left out).             *)
(***************************************************************************)
EXTENDS Integers, Sequences, FiniteSets, Bags, TLC

VARIABLES
    sensor_data_csv,                \* the raw file 'sensor_data.csv'
    DEVICE_NAME,                    \* the environment's DEVICE_NAME ("" = unset)
    processed_data_collection,      \* energy_data.read_processed_data
    daily_consumption_collection,   \* energy_data.daily_power_consumption
    last_transform,                 \* record of the latest transform_and_load run
    last_aggregate,                 \* record of the latest aggregate_and_load_daily run
    request,                        \* the latest HTTP request
    response,                       \* the response to it
    etl_run,                        \* the ETL run in progress, step by step
    api_call                        \* the request between its two store queries

vars == <<sensor_data_csv, DEVICE_NAME, processed_data_collection,
          daily_consumption_collection, last_transform, last_aggregate,
          request, response, etl_run, api_call>>

(***************************************************************************)
(* Bounds of the model.                                                    *)
(***************************************************************************)
MaxRows == 2        \* rows of the raw file
MaxRuns == 2        \* runs of each ETL stage in one behaviour

(***************************************************************************)
(* Time.                                                                   *)
(***************************************************************************)
MinutesPerHour == 60
HoursPerDay == 24
MinutesPerDay == HoursPerDay * MinutesPerHour

DayOf(t) == t \div MinutesPerDay
Midnight(day) == day * MinutesPerDay

(***************************************************************************)
(* Cells of the raw file.  NaN is a missing cell; BadText is a timestamp   *)
(* cell pandas.to_datetime cannot parse.                                   *)
(***************************************************************************)
NaN == -1
BadText == -2

(***************************************************************************)
(* Generic helpers.                                                        *)
(***************************************************************************)
RECURSIVE SeqToBag(_)
SeqToBag(s) ==
    IF s = <<>> THEN EmptyBag
    ELSE SetToBag({Head(s)}) (+) SeqToBag(Tail(s))

RECURSIVE SumOver(_, _, _)
\* sum of rows[k][i] over the rows k in 1..Len(rows) with keep[k]
SumOver(rows, i, keep) ==
    IF rows = <<>> THEN 0
    ELSE (IF keep[1] THEN Head(rows)[i] ELSE 0)
         + SumOver(Tail(rows), i, [k \in 1..(Len(rows) - 1) |-> keep[k + 1]])

SetMin(S) == CHOOSE x \in S : \A y \in S : x <= y
SetMax(S) == CHOOSE x \in S : \A y \in S : x >= y

Range(s) == {s[k] : k \in 1..Len(s)}

(***************************************************************************)
(* The raw file: whether it exists, its header row and its data rows       *)
(* (each row a tuple of cells, one per column).                            *)
(***************************************************************************)
NoFile == [exists |-> FALSE, cols |-> <<>>, rows |-> <<>>]

\* str.strip().str.lower() on the header names the model uses
StripLower(name) ==
    CASE name \in {"Timestamp", " Timestamp ", "timestamp"} -> "timestamp"
      [] name \in {"CT_R (A)", " CT_R (A)", "ct_r (a)"} -> "ct_r (a)"
      [] name \in {"CT_Y (A)", "CT_Y (A) ", "ct_y (a)"} -> "ct_y (a)"
      [] name \in {"CT_B (A)", "Ct_B (A)", "ct_b (a)"} -> "ct_b (a)"
      [] OTHER -> name

\* position of column `name` in the header, 0 when absent (df[name] raises KeyError)
ColIndex(cols, name) ==
    IF \E i \in 1..Len(cols) : cols[i] = name
    THEN CHOOSE i \in 1..Len(cols) : cols[i] = name
    ELSE 0

HasNaN(row) == \E i \in 1..Len(row) : row[i] = NaN

\* DataFrame.dropna(): rows with any missing cell are dropped
dropna_KeepAll(rows) == rows
dropna(rows) == SelectSeq(rows, LAMBDA r : ~HasNaN(r))

(***************************************************************************)
(* The store.                                                              *)
(***************************************************************************)
\* collection.delete_many({}): the empty filter matches every document
delete_many_NoOp(collection) == collection
delete_many(collection) == EmptyBag

\* collection.insert_many(docs), ordered: of the batch, the first `accepted`
\* documents are stored (all of them when the store does not fail)
insert_many_Replace(collection, docs, accepted) == SeqToBag(SubSeq(docs, 1, accepted))
insert_many(collection, docs, accepted) ==
    collection (+) SeqToBag(SubSeq(docs, 1, accepted))

\* Store failures a run can meet: none, at client.admin.command('ping'), at
\* delete_many (nothing deleted), at insert_many after `k` documents were accepted.
NoFault == [at |-> "none", k |-> 0]
Faults == {NoFault, [at |-> "ping", k |-> 0], [at |-> "delete", k |-> 0],
           [at |-> "insert", k |-> 0], [at |-> "insert", k |-> 1]}

Accepted(fault, docs) ==
    IF fault.at = "insert"
    THEN (IF fault.k < Len(docs) THEN fault.k ELSE Len(docs) - 1)
    ELSE Len(docs)

(***************************************************************************)
(* Transform stage: transform_and_load.py.                                 *)
(***************************************************************************)
voltage == 230
KWDen == 1000                       \* a stored power p stands for p / 1000 kW

TransformColumns == <<"Timestamp", "CT_R (A)", "CT_Y (A)", "CT_B (A)">>

\* (df[column] * voltage) / 1000, in units of 1/KWDen kW; NaN stays NaN
PhasePower(current) == IF current = NaN THEN NaN ELSE current * voltage

\* df['R_power(kW)'] + df['Y_power(kW)'] + df['B_power(kW)']
TotalPower(r, y, b) == IF NaN \in {r, y, b} THEN NaN ELSE r + y + b

\* one record of df.to_dict('records'): every column of the file, the four
\* derived powers and the device name
ProcessedDoc(cols, row, device) ==
    LET r == PhasePower(row[ColIndex(cols, "CT_R (A)")])
        y == PhasePower(row[ColIndex(cols, "CT_Y (A)")])
        b == PhasePower(row[ColIndex(cols, "CT_B (A)")])
    IN  ("R_power(kW)" :> r) @@ ("Y_power(kW)" :> y) @@ ("B_power(kW)" :> b)
        @@ ("Total_power(kW)" :> TotalPower(r, y, b)) @@ ("device_name" :> device)
        @@ [c \in Range(cols) |-> row[ColIndex(cols, c)]]

\* The run up to data_to_insert: how it ends before any write, or "ready"
\* with the documents to insert.
TransformPlan(csv, device, fault) ==
    LET rows == dropna(csv.rows)
        iT == ColIndex(csv.cols, "Timestamp")
    IN  IF device = "" THEN [outcome |-> "no_env", docs |-> <<>>]
        ELSE IF fault.at = "ping" THEN [outcome |-> "error", docs |-> <<>>]
        ELSE IF ~csv.exists THEN [outcome |-> "file_not_found", docs |-> <<>>]
        ELSE IF iT = 0 THEN [outcome |-> "error", docs |-> <<>>]
        ELSE IF \E k \in 1..Len(rows) : rows[k][iT] = BadText
             THEN [outcome |-> "error", docs |-> <<>>]
        ELSE IF \E c \in Range(TransformColumns) : ColIndex(csv.cols, c) = 0
             THEN [outcome |-> "error", docs |-> <<>>]
        ELSE IF rows = <<>> THEN [outcome |-> "empty", docs |-> <<>>]
        ELSE [outcome |-> "ready",
              docs |-> [k \in 1..Len(rows) |-> ProcessedDoc(csv.cols, rows[k], device)]]

\* the processed collection when the run ends
TransformWrite(collection, plan, fault) ==
    IF plan.outcome = "ready"
    THEN insert_many(collection, plan.docs, Accepted(fault, plan.docs))
    ELSE collection

TransformOutcome(plan, fault) ==
    IF plan.outcome = "ready"
    THEN (IF fault.at = "insert" THEN "error" ELSE "inserted")
    ELSE plan.outcome

(***************************************************************************)
(* Daily aggregation stage: aggregate_daily.py.                            *)
(***************************************************************************)
KWhDen == KWDen * MinutesPerHour    \* a stored energy e stands for e / 60000 kWh

AggregateColumns == <<"timestamp", "ct_r (a)", "ct_y (a)", "ct_b (a)">>

\* df.columns.str.strip().str.lower()
NormalizedColumns(cols) == [i \in 1..Len(cols) |-> StripLower(cols[i])]

\* (total_sum_of_amps * voltage / 1000) / 60, in units of 1/KWhDen kWh
total_kWh_Volts240(total_sum_of_amps) == total_sum_of_amps * 240
total_kWh(total_sum_of_amps) == total_sum_of_amps * voltage

\* df.resample('D'): the daily bins run from the first day with a row to the
\* last one, the days in between included
ResampleDays(days) == SetMin(days)..SetMax(days)

\* one row of df.resample('D').sum() with the derived columns, shaped and renamed
DailyDoc(cols, rows, day, device) ==
    LET iT == ColIndex(cols, "timestamp")
        inDay == [k \in 1..Len(rows) |-> DayOf(rows[k][iT]) = day]
        r == SumOver(rows, ColIndex(cols, "ct_r (a)"), inDay)
        y == SumOver(rows, ColIndex(cols, "ct_y (a)"), inDay)
        b == SumOver(rows, ColIndex(cols, "ct_b (a)"), inDay)
    IN  [date |-> Midnight(day), sum_CT_R_A |-> r, sum_CT_Y_A |-> y, sum_CT_B_A |-> b,
         total_kWh |-> total_kWh(r + y + b), device_name |-> device]

AggregatePlan(csv, device, fault) ==
    LET cols == NormalizedColumns(csv.cols)
        iT == ColIndex(cols, "timestamp")
        rows == dropna(csv.rows)
        days == ResampleDays({DayOf(rows[k][iT]) : k \in 1..Len(rows)})
        first == SetMin(days)
    IN  IF device = "" THEN [outcome |-> "no_env", docs |-> <<>>]
        ELSE IF fault.at = "ping" THEN [outcome |-> "error", docs |-> <<>>]
        ELSE IF ~csv.exists THEN [outcome |-> "file_not_found", docs |-> <<>>]
        ELSE IF iT = 0 THEN [outcome |-> "key_error", docs |-> <<>>]
        ELSE IF \E k \in 1..Len(csv.rows) : csv.rows[k][iT] = BadText
             THEN [outcome |-> "error", docs |-> <<>>]
        ELSE IF rows = <<>> THEN [outcome |-> "empty", docs |-> <<>>]
        ELSE IF \E c \in Range(AggregateColumns) : ColIndex(cols, c) = 0
             THEN [outcome |-> "key_error", docs |-> <<>>]
        ELSE [outcome |-> "ready",
              docs |-> [k \in 1..Cardinality(days) |->
                            DailyDoc(cols, rows, first + k - 1, device)]]

\* the daily collection when the run ends: cleared, then the batch inserted
AggregateWrite_OwnDeviceOnly(collection, plan, fault) ==
    IF plan.outcome # "ready" \/ fault.at = "delete" THEN collection
    ELSE LET device == plan.docs[1].device_name
             others == {d \in BagToSet(collection) : d.device_name # device}
         IN  insert_many([d \in others |-> collection[d]], plan.docs,
                         Accepted(fault, plan.docs))
AggregateWrite_ClearFirst(collection, plan, fault) ==
    IF fault.at \in {"ping", "delete"} \/ plan.outcome = "no_env" THEN collection
    ELSE IF plan.outcome # "ready" THEN delete_many(collection)
    ELSE insert_many(delete_many(collection), plan.docs, Accepted(fault, plan.docs))
AggregateWrite_Rollback(collection, plan, fault) ==
    IF plan.outcome # "ready" \/ fault.at \in {"delete", "insert"} THEN collection
    ELSE insert_many(delete_many(collection), plan.docs, Accepted(fault, plan.docs))
AggregateWrite(collection, plan, fault) ==
    IF plan.outcome # "ready" \/ fault.at = "delete" THEN collection
    ELSE insert_many(delete_many(collection), plan.docs, Accepted(fault, plan.docs))

AggregateOutcome(plan, fault) ==
    IF plan.outcome = "ready"
    THEN (IF fault.at \in {"delete", "insert"} THEN "error" ELSE "inserted")
    ELSE plan.outcome

(***************************************************************************)
(* Query API: main.py.  Calendar arithmetic of datetime.                   *)
(***************************************************************************)
EpochYear == 2024                   \* the year instant 0 falls in

IsLeap(y) == (y % 4 = 0 /\ y % 100 # 0) \/ y % 400 = 0

DaysInMonth(y, m) ==
    CASE m \in {4, 6, 9, 11} -> 30
      [] m = 2 -> (IF IsLeap(y) THEN 29 ELSE 28)
      [] OTHER -> 31

RECURSIVE DaysBeforeMonth(_, _)
DaysBeforeMonth(y, m) ==
    IF m <= 1 THEN 0 ELSE DaysBeforeMonth(y, m - 1) + DaysInMonth(y, m - 1)

RECURSIVE DaysBeforeYear(_)
DaysBeforeYear(y) ==
    IF y <= EpochYear THEN 0
    ELSE DaysBeforeYear(y - 1) + DaysBeforeMonth(y - 1, 13)

\* the instant of a calendar date and time of day
ToMinutes(y, m, d, h, mi) ==
    (DaysBeforeYear(y) + DaysBeforeMonth(y, m) + (d - 1)) * MinutesPerDay
        + h * MinutesPerHour + mi

(***************************************************************************)
(* A query parameter is absent ("none"), the empty string ("empty") or a   *)
(* text.  A date text is held as its three number fields, a time text as   *)
(* its two; `shaped` tells whether the text has the digits-and-separators  *)
(* layout of YYYY-MM-DD / HH:MM at all ("13/32/2024" has not).             *)
(***************************************************************************)
NoDate == [kind |-> "none", shaped |-> FALSE, y |-> 0, m |-> 0, d |-> 0]
EmptyDate == [kind |-> "empty", shaped |-> FALSE, y |-> 0, m |-> 0, d |-> 0]
DateText(y, m, d) == [kind |-> "text", shaped |-> TRUE, y |-> y, m |-> m, d |-> d]
SlashDate == [kind |-> "text", shaped |-> FALSE, y |-> 2024, m |-> 13, d |-> 32]

NoTime == [kind |-> "none", shaped |-> FALSE, h |-> 0, mi |-> 0]
TimeText(h, mi) == [kind |-> "text", shaped |-> TRUE, h |-> h, mi |-> mi]

\* datetime.strptime(text, "%Y-%m-%d") / (text, "%H:%M") accepts the text
DateParses(date) ==
    /\ date.shaped
    /\ date.y >= 1
    /\ date.m \in 1..12
    /\ date.d \in 1..DaysInMonth(date.y, date.m)

TimeParses(time) == time.shaped /\ time.h \in 0..23 /\ time.mi \in 0..59

NoneDt == [tag |-> "none", t |-> 0]
Http400 == [tag |-> "http400", t |-> 0]

parse_datetime_input(date_str, time_str) ==
    LET time == IF time_str.kind = "text" THEN time_str ELSE TimeText(0, 0)
    IN  IF date_str.kind # "text" THEN NoneDt
        ELSE IF DateParses(date_str) /\ TimeParses(time)
        THEN [tag |-> "dt",
              t |-> ToMinutes(date_str.y, date_str.m, date_str.d, time.h, time.mi)]
        ELSE Http400

\* datetime.isoformat(): the calendar fields of an instant, as text
isoformat(t) ==
    LET day == t \div MinutesPerDay
        y == CHOOSE c \in EpochYear..(EpochYear + 1) :
                 DaysBeforeYear(c) <= day /\ day < DaysBeforeYear(c + 1)
        doy == day - DaysBeforeYear(y)
        m == CHOOSE c \in 1..12 :
                 DaysBeforeMonth(y, c) <= doy /\ doy < DaysBeforeMonth(y, c + 1)
    IN  [y |-> y, m |-> m, d |-> doy - DaysBeforeMonth(y, m) + 1,
         h |-> (t % MinutesPerDay) \div MinutesPerHour, mi |-> t % MinutesPerHour]

(***************************************************************************)
(* Store queries.                                                          *)
(***************************************************************************)
\* the documents a filter {"device_name": device} matches
OfDevice(collection, device) ==
    {d \in BagToSet(collection) : "device_name" \in DOMAIN d /\ d["device_name"] = device}

\* find_one({"device_name": device}, sort=[(field, -1)]): the documents that can
\* come first; a document without the field sorts below every instant
find_one(collection, device, field) ==
    LET docs == OfDevice(collection, device)
        with == {d \in docs : field \in DOMAIN d}
    IN  IF with # {} THEN {d \in with : \A e \in with : e[field] <= d[field]}
        ELSE docs

\* find({"device_name": device, field: {"$gte": lo, "$lte": hi}})
find(collection, device, field, lo, hi) ==
    LET docs == {d \in OfDevice(collection, device) :
                     field \in DOMAIN d /\ lo <= d[field] /\ d[field] <= hi}
    IN  [d \in docs |-> collection[d]]

RemoveOne(bag, d) ==
    IF bag[d] = 1 THEN [e \in (DOMAIN bag) \ {d} |-> bag[e]]
    ELSE [bag EXCEPT ![d] = @ - 1]

\* cursor.sort(field, 1): every order of the matched documents that is ascending
\* in the field (documents with equal values come in any order)
RECURSIVE sort(_, _)
sort(bag, field) ==
    IF DOMAIN bag = {} THEN {<<>>}
    ELSE LET firsts == {d \in DOMAIN bag : \A e \in DOMAIN bag : d[field] <= e[field]}
         IN  UNION {{<<d>> \o rest : rest \in sort(RemoveOne(bag, d), field)} : d \in firsts}

RECURSIVE GCD(_, _)
GCD(a, b) == IF b = 0 THEN a ELSE GCD(b, a % b)

\* {"$avg": "$field"} over a bag of documents, as a fraction in lowest terms
avg(bag, field) ==
    LET docs == {d \in DOMAIN bag : field \in DOMAIN d}
        RECURSIVE Total(_)
        Total(S) == IF S = {} THEN 0
                    ELSE LET d == CHOOSE x \in S : TRUE
                         IN  d[field] * bag[d] + Total(S \ {d})
        RECURSIVE Count(_)
        Count(S) == IF S = {} THEN 0
                    ELSE LET d == CHOOSE x \in S : TRUE
                         IN  bag[d] + Count(S \ {d})
        num == Total(docs)
        den == Count(docs)
        g == GCD(num, den)
    IN  IF den = 0 THEN [num |-> 0, den |-> 0]
        ELSE IF g = 0 THEN [num |-> 0, den |-> 1]
        ELSE [num |-> num \div g, den |-> den \div g]

\* {"$dateTrunc": {"date": t, "unit": "hour", "binSize": interval_hours}}
dateTrunc(t, interval_hours) == t - (t % (interval_hours * MinutesPerHour))

\* the $match / $group / $project / $sort pipeline of get_processed_data
aggregate(matched, interval_hours) ==
    LET starts == {dateTrunc(d["timestamp"], interval_hours) : d \in DOMAIN matched}
        members(b) == [d \in {x \in DOMAIN matched :
                                  dateTrunc(x["timestamp"], interval_hours) = b}
                          |-> matched[d]]
        bucket(b) ==
            ("timestamp" :> b)
            @@ ("ct_r (a)" :> avg(members(b), "ct_r (a)"))
            @@ ("ct_y (a)" :> avg(members(b), "ct_y (a)"))
            @@ ("ct_b (a)" :> avg(members(b), "ct_b (a)"))
            @@ ("r_power(kw)" :> avg(members(b), "r_power(kw)"))
            @@ ("y_power(kw)" :> avg(members(b), "y_power(kw)"))
            @@ ("b_power(kw)" :> avg(members(b), "b_power(kw)"))
            @@ ("total_power(kw)" :> avg(members(b), "total_power(kw)"))
    IN  sort(SetToBag({bucket(b) : b \in starts}), "timestamp")

\* the response loop: an instant under `field` is rendered as ISO text
Render(docs, field) ==
    [k \in 1..Len(docs) |->
        IF field \in DOMAIN docs[k]
        THEN [docs[k] EXCEPT ![field] = isoformat(@)]
        ELSE docs[k]]

(***************************************************************************)
(* GET /processed and GET /daily-consumption.                              *)
(***************************************************************************)
interval_hours(interval) ==
    CASE interval = "1hr" -> 1
      [] interval = "4hr" -> 4
      [] interval = "8hr" -> 8
      [] interval = "12hr" -> 12
      [] interval = "24hr" -> 24

Ok(bodies) == {[status |-> 200, body |-> b] : b \in bodies}
HttpError(code) == [status |-> code, body |-> <<>>]

\* timedelta(days=1) and timedelta(days=6) back from the latest document
DefaultProcessedStart(end_dt) == end_dt - MinutesPerDay
DefaultDailyStart_Week(end_dt) == end_dt - 7 * MinutesPerDay
DefaultDailyStart(end_dt) == end_dt - 6 * MinutesPerDay

\* the query and the shaping, once the range is known
ProcessedRange(collection, q, start_dt, end_dt) ==
    LET matched == find(collection, q.device_name, "timestamp", start_dt, end_dt)
    IN  IF q.interval = "raw"
        THEN Ok({Render(docs, "timestamp") : docs \in sort(matched, "timestamp")})
        ELSE Ok({Render(docs, "timestamp") :
                     docs \in aggregate(matched, interval_hours(q.interval))})

get_processed_data_response(collection, q) ==
    LET start_dt == parse_datetime_input(q.start_date, q.start_time)
        end_dt == parse_datetime_input(q.end_date, q.end_time)
    IN  IF start_dt.tag = "http400" \/ end_dt.tag = "http400" THEN {HttpError(400)}
        ELSE IF start_dt.tag = "none" \/ end_dt.tag = "none"
        THEN LET latest == find_one(collection, q.device_name, "timestamp")
             IN  IF latest = {} THEN Ok({<<>>})
                 ELSE UNION {IF "timestamp" \in DOMAIN latest_doc
                             THEN ProcessedRange(collection, q,
                                      DefaultProcessedStart(latest_doc["timestamp"]),
                                      latest_doc["timestamp"])
                             ELSE {HttpError(500)} : latest_doc \in latest}
        ELSE ProcessedRange(collection, q, start_dt.t, end_dt.t)

\* the query of get_daily_consumption and the shaping, once the range is known
DailyRange(collection, q, start_dt, end_dt) ==
    Ok({Render(docs, "date") :
            docs \in sort(find(collection, q.device_name, "date", start_dt, end_dt), "date")})

get_daily_consumption_response(collection, q) ==
    LET start_dt == parse_datetime_input(q.start_date, TimeText(0, 0))
        end_dt == parse_datetime_input(q.end_date, TimeText(23, 59))
        range(lo, hi) == DailyRange(collection, q, lo, hi)
    IN  IF start_dt.tag = "http400" \/ end_dt.tag = "http400" THEN {HttpError(400)}
        ELSE IF start_dt.tag = "none" \/ end_dt.tag = "none"
        THEN LET latest == find_one(collection, q.device_name, "date")
             IN  IF latest = {} THEN Ok({<<>>})
                 ELSE UNION {IF "date" \in DOMAIN latest_doc
                             THEN range(DefaultDailyStart(latest_doc["date"]),
                                        latest_doc["date"])
                             ELSE {HttpError(500)} : latest_doc \in latest}
        ELSE range(start_dt.t, end_dt.t)

(***************************************************************************)
(* Inputs of the model: raw files, device names, prior store contents.     *)
(***************************************************************************)
Devices == {"A", "B"}

StdCols == <<"Timestamp", "CT_R (A)", "CT_Y (A)", "CT_B (A)">>
PaddedCols == <<" Timestamp ", " CT_R (A)", "CT_Y (A) ", "Ct_B (A)">>
LowerCols == <<"timestamp", "ct_r (a)", "ct_y (a)", "ct_b (a)">>
NoPhaseCols == <<"Timestamp", "CT_R (A)", "CT_Y (A)">>
NoTimeCols == <<"Time", "CT_R (A)", "CT_Y (A)", "CT_B (A)">>

\* 2024-01-01 00:00 and 23:59, 2024-01-03 12:00, 2024-01-09 00:00
CsvTimes == {0, MinutesPerDay - 1, 2 * MinutesPerDay + 12 * MinutesPerHour,
             8 * MinutesPerDay}

RawRows ==
    {<<t, 400, 400, 400>> : t \in CsvTimes}
    \cup {<<0, 1, 2, 3>>, <<NaN, 1, 2, 3>>, <<0, 1, NaN, 3>>, <<BadText, 1, 2, 3>>,
          <<BadText, NaN, 2, 3>>}

RECURSIVE SeqsUpTo(_, _)
SeqsUpTo(S, n) ==
    IF n = 0 THEN {<<>>}
    ELSE LET shorter == SeqsUpTo(S, n - 1)
         IN  shorter \cup {Append(s, x) : s \in shorter, x \in S}

GoodRows == <<<<0, 1, 2, 3>>, <<MinutesPerDay - 1, 400, 400, 400>>>>

CsvFiles ==
    {NoFile}
    \cup {[exists |-> TRUE, cols |-> StdCols, rows |-> r] : r \in SeqsUpTo(RawRows, MaxRows)}
    \cup {[exists |-> TRUE, cols |-> c, rows |-> GoodRows] : c \in {PaddedCols, LowerCols, NoTimeCols}}
    \cup {[exists |-> TRUE, cols |-> NoPhaseCols, rows |-> <<<<0, 1, 2>>>>]}

\* a document of the daily summary collection, as aggregate_and_load_daily shapes it
PriorDailyDoc(day, amps, device) ==
    [date |-> Midnight(day), sum_CT_R_A |-> amps, sum_CT_Y_A |-> amps, sum_CT_B_A |-> amps,
     total_kWh |-> total_kWh(3 * amps), device_name |-> device]

PriorDaily ==
    {EmptyBag,
     SetToBag({PriorDailyDoc(5, 7, "B")}),
     SetToBag({PriorDailyDoc(0, 1, "A"), PriorDailyDoc(3, 2, "A"), PriorDailyDoc(9, 3, "A"),
               PriorDailyDoc(9, 4, "B")})}

\* a document of the processed collection under the field names the API reads
\* (those the earlier loader, which lower-cased the header, wrote)
LegacyDoc(t, amps, device) ==
    ("timestamp" :> t) @@ ("ct_r (a)" :> amps) @@ ("ct_y (a)" :> amps) @@ ("ct_b (a)" :> amps)
    @@ ("r_power(kw)" :> PhasePower(amps)) @@ ("y_power(kw)" :> PhasePower(amps))
    @@ ("b_power(kw)" :> PhasePower(amps)) @@ ("total_power(kw)" :> 3 * PhasePower(amps))
    @@ ("device_name" :> device)

PriorProcessed ==
    {EmptyBag,
     SetToBag({LegacyDoc(0, 1, "A"), LegacyDoc(12 * MinutesPerHour, 2, "A"),
               LegacyDoc(36 * MinutesPerHour, 4, "A"), LegacyDoc(20 * MinutesPerHour, 8, "B")}),
     SetToBag({LegacyDoc(MinutesPerHour, 1, "B"), LegacyDoc(3 * MinutesPerHour, 3, "B")})
         (+) SetToBag({LegacyDoc(3 * MinutesPerHour, 3, "B")})}

NoRun == [runs |-> 0, fault |-> NoFault, repeat |-> FALSE, outcome |-> "none",
          before |-> EmptyBag, before_prev |-> EmptyBag]

NoRequest == [route |-> "none"]
NoResponse == [status |-> 0, body |-> <<>>]

\* no ETL run in progress: `client = None`, nothing opened, nothing closed
NoEtlRun == [stage |-> "none", pc |-> "idle", fault |-> NoFault, client |-> "None",
             opened |-> 0, closed |-> 0, outcome |-> "none", docs |-> <<>>,
             before |-> EmptyBag]

\* no request between its latest-document lookup and its range query
NoCall == [phase |-> "idle", start_dt |-> 0, end_dt |-> 0]

(***************************************************************************)
(* The ETL runs as steps of the system.  Each run is one step: the run is  *)
(* a batch job and the store executes its operations one after another.    *)
(* request and response hold the latest HTTP exchange; a run makes that    *)
(* exchange a thing of the past, so the pair always describes a response   *)
(* computed from the present store.                                        *)
(***************************************************************************)
RunRecord(last, fault, outcome, before) ==
    [runs |-> last.runs + 1, fault |-> fault,
     repeat |-> (last.runs > 0 /\ last.fault = fault),
     outcome |-> outcome, before |-> before, before_prev |-> last.before]

transform_and_load(fault) ==
    LET plan == TransformPlan(sensor_data_csv, DEVICE_NAME, fault)
    IN  /\ last_transform.runs < MaxRuns
        /\ processed_data_collection' =
               TransformWrite(processed_data_collection, plan, fault)
        /\ last_transform' = RunRecord(last_transform, fault, TransformOutcome(plan, fault),
                                       processed_data_collection)
        /\ request' = NoRequest
        /\ response' = NoResponse
        /\ UNCHANGED <<sensor_data_csv, DEVICE_NAME, daily_consumption_collection,
                       last_aggregate, etl_run, api_call>>

aggregate_and_load_daily(fault) ==
    LET plan == AggregatePlan(sensor_data_csv, DEVICE_NAME, fault)
    IN  /\ last_aggregate.runs < MaxRuns
        /\ daily_consumption_collection' =
               AggregateWrite(daily_consumption_collection, plan, fault)
        /\ last_aggregate' = RunRecord(last_aggregate, fault, AggregateOutcome(plan, fault),
                                       daily_consumption_collection)
        /\ request' = NoRequest
        /\ response' = NoResponse
        /\ UNCHANGED <<sensor_data_csv, DEVICE_NAME, processed_data_collection,
                       last_transform, etl_run, api_call>>

(***************************************************************************)
(* SpecDaily: the daily aggregation stage alone, over every raw file.      *)
(***************************************************************************)
InitDaily ==
    /\ sensor_data_csv \in CsvFiles
    /\ DEVICE_NAME \in Devices \cup {""}
    /\ processed_data_collection = EmptyBag
    /\ daily_consumption_collection \in PriorDaily
    /\ last_transform = NoRun
    /\ last_aggregate = NoRun
    /\ request = NoRequest
    /\ response = NoResponse
    /\ etl_run = NoEtlRun
    /\ api_call = NoCall

NextDaily == \E fault \in Faults : aggregate_and_load_daily(fault)

SpecDaily == InitDaily /\ [][NextDaily]_vars

(***************************************************************************)
(* SpecTransform: the transform stage alone, over every raw file.          *)
(***************************************************************************)
InitTransform ==
    /\ sensor_data_csv \in CsvFiles
    /\ DEVICE_NAME \in Devices \cup {""}
    /\ processed_data_collection \in PriorProcessed
    /\ daily_consumption_collection = EmptyBag
    /\ last_transform = NoRun
    /\ last_aggregate = NoRun
    /\ request = NoRequest
    /\ response = NoResponse
    /\ etl_run = NoEtlRun
    /\ api_call = NoCall

NextTransform == \E fault \in Faults : transform_and_load(fault)

SpecTransform == InitTransform /\ [][NextTransform]_vars

(***************************************************************************)
(* Spec: the pipeline and the API together.  The stages load the store     *)
(* from the raw file and requests are served from the store.               *)
(***************************************************************************)
Intervals == {"raw", "1hr", "4hr", "8hr", "12hr", "24hr"}

ReqDates == {NoDate, EmptyDate, DateText(2024, 1, 1), DateText(2024, 1, 2),
             DateText(2024, 1, 9), DateText(2024, 2, 30), SlashDate}
ReqTimes == {NoTime, TimeText(12, 0), TimeText(25, 99)}

\* date and time of one end of a range: every pairing, and a few of them
EndParams == {<<d, t>> : d \in ReqDates, t \in ReqTimes}
FewEndParams == {<<NoDate, NoTime>>, <<DateText(2024, 1, 2), NoTime>>,
                 <<DateText(2024, 1, 1), TimeText(12, 0)>>, <<NoDate, TimeText(25, 99)>>}

ProcessedRequests ==
    {[route |-> "/processed", device_name |-> dev, start_date |-> se[1][1],
      start_time |-> se[1][2], end_date |-> se[2][1], end_time |-> se[2][2],
      interval |-> "raw"] :
        dev \in Devices,
        se \in (EndParams \X FewEndParams) \cup (FewEndParams \X EndParams)}
    \cup
    {[route |-> "/processed", device_name |-> dev, start_date |-> sd, start_time |-> NoTime,
      end_date |-> ed, end_time |-> NoTime, interval |-> i] :
        dev \in Devices, sd \in {NoDate, DateText(2024, 1, 1)},
        ed \in {NoDate, DateText(2024, 1, 2)}, i \in Intervals \ {"raw"}}

DailyRequests ==
    {[route |-> "/daily-consumption", device_name |-> dev, start_date |-> sd, end_date |-> ed] :
        dev \in Devices, sd \in ReqDates, ed \in ReqDates}

SystemFiles ==
    {[exists |-> TRUE, cols |-> StdCols, rows |-> GoodRows],
     [exists |-> TRUE, cols |-> StdCols,
      rows |-> <<<<0, 1, 2, 3>>, <<8 * MinutesPerDay, 400, 400, 400>>>>]}

\* prior contents of the two collections
PriorStores ==
    {<<p, d>> \in PriorProcessed \X PriorDaily :
        BagCardinality(p) = BagCardinality(d) \/ BagCardinality(p) + BagCardinality(d) = 4}

\* One exchange is observed at a time: a request is taken when none is held.
get_processed_data(q) ==
    /\ request = NoRequest
    /\ request' = q
    /\ response' \in get_processed_data_response(processed_data_collection, q)
    /\ UNCHANGED <<sensor_data_csv, DEVICE_NAME, processed_data_collection,
                   daily_consumption_collection, last_transform, last_aggregate,
                   etl_run, api_call>>

get_daily_consumption(q) ==
    /\ request = NoRequest
    /\ request' = q
    /\ response' \in get_daily_consumption_response(daily_consumption_collection, q)
    /\ UNCHANGED <<sensor_data_csv, DEVICE_NAME, processed_data_collection,
                   daily_consumption_collection, last_transform, last_aggregate,
                   etl_run, api_call>>

Init ==
    /\ sensor_data_csv \in SystemFiles
    /\ DEVICE_NAME \in Devices
    /\ \E store \in PriorStores :
           /\ processed_data_collection = store[1]
           /\ daily_consumption_collection = store[2]
    /\ last_transform = NoRun
    /\ last_aggregate = NoRun
    /\ request = NoRequest
    /\ response = NoResponse
    /\ etl_run = NoEtlRun
    /\ api_call = NoCall

Next ==
    \/ transform_and_load(NoFault)
    \/ aggregate_and_load_daily(NoFault)
    \/ \E q \in ProcessedRequests : get_processed_data(q)
    \/ \E q \in DailyRequests : get_daily_consumption(q)

Spec == Init /\ [][Next]_vars

(***************************************************************************)
(* What the claims about the ETL stages read off a state.                  *)
(***************************************************************************)
\* the rows of the raw file with no missing field
ValidRows == SelectSeq(sensor_data_csv.rows, LAMBDA r : \A i \in 1..Len(r) : r[i] # NaN)

\* the cell of `row` in the column the daily stage knows as `name`
Cell(row, name) == row[ColIndex(NormalizedColumns(sensor_data_csv.cols), name)]

RowAmps(row) == Cell(row, "ct_r (a)") + Cell(row, "ct_y (a)") + Cell(row, "ct_b (a)")

InputDays == {DayOf(Cell(ValidRows[k], "timestamp")) : k \in 1..Len(ValidRows)}

RowsOfDay(day) == SelectSeq(ValidRows, LAMBDA r : DayOf(Cell(r, "timestamp")) = day)

RECURSIVE SumSeq(_)
SumSeq(s) == IF s = <<>> THEN 0 ELSE Head(s) + SumSeq(Tail(s))

PhaseSum(day, name) ==
    SumSeq([k \in 1..Len(RowsOfDay(day)) |-> Cell(RowsOfDay(day)[k], name)])

\* S: the day's total of ct_r + ct_y + ct_b, row by row
DayAmps(day) == SumSeq([k \in 1..Len(RowsOfDay(day)) |-> RowAmps(RowsOfDay(day)[k])])

\* the day's energy as the sum of each row's own (row_amps * 230 / 1000) / 60,
\* in units of 1/KWhDen kWh
DayEnergyRowByRow(day) ==
    SumSeq([k \in 1..Len(RowsOfDay(day)) |-> RowAmps(RowsOfDay(day)[k]) * 230])

DailyDocs == BagToSet(daily_consumption_collection)
ProcessedDocs == BagToSet(processed_data_collection)

\* C1: two daily aggregation runs in succession on the same raw file, for the
\* same device and meeting the same store behaviour, leave the daily summary
\* collection after the second run as it was after the first, whatever the
\* collection held before the first.
C1_DailyRunIdempotent ==
    (last_aggregate.runs >= 2 /\ last_aggregate.repeat) =>
        daily_consumption_collection = last_aggregate.before

C1_Witness ==
    /\ last_aggregate.runs = 2
    /\ last_aggregate.repeat
    /\ last_aggregate.outcome = "inserted"
    /\ last_aggregate.before_prev # EmptyBag
    /\ last_aggregate.before_prev # last_aggregate.before
    /\ BagCardinality(daily_consumption_collection) >= 2

\* C2: a successful transform run on a file with n valid rows leaves the
\* processed collection with its prior count plus n, and a second successful
\* run on the same file adds the same documents again (per document and in
\* total, twice what the first run added).
C2_TransformAdditive ==
    /\ last_transform.outcome = "inserted" =>
           BagCardinality(processed_data_collection)
               = BagCardinality(last_transform.before) + Len(ValidRows)
    /\ (last_transform.runs >= 2 /\ last_transform.repeat
            /\ last_transform.outcome = "inserted") =>
           /\ BagCardinality(processed_data_collection)
                  - BagCardinality(last_transform.before_prev) = 2 * Len(ValidRows)
           /\ \A d \in ProcessedDocs :
                  CopiesIn(d, processed_data_collection)
                      - CopiesIn(d, last_transform.before_prev)
                  = 2 * (CopiesIn(d, last_transform.before)
                             - CopiesIn(d, last_transform.before_prev))

C2_Witness ==
    /\ last_transform.runs = 2
    /\ last_transform.repeat
    /\ last_transform.outcome = "inserted"
    /\ last_transform.before_prev # EmptyBag
    /\ Len(ValidRows) = 2
    /\ BagCardinality(processed_data_collection)
           = BagCardinality(last_transform.before_prev) + 4

\* C3: after a successful daily aggregation run the daily summary collection
\* holds exactly the documents of that run: all carry the run's device name
\* and nothing that was there before the run is left, other devices'
\* summaries included.
C3_DailyRunReplacesCollection ==
    last_aggregate.outcome = "inserted" =>
        LET produced == SeqToBag(AggregatePlan(sensor_data_csv, DEVICE_NAME, NoFault).docs)
        IN  /\ daily_consumption_collection = produced
            /\ \A d \in DailyDocs : d.device_name = DEVICE_NAME
            /\ \A d \in BagToSet(last_aggregate.before) :
                   CopiesIn(d, daily_consumption_collection) = CopiesIn(d, produced)

C3_Witness ==
    /\ last_aggregate.outcome = "inserted"
    /\ DEVICE_NAME = "A"
    /\ \E d \in BagToSet(last_aggregate.before) : d.device_name = "B"
    /\ \E d \in BagToSet(last_aggregate.before) : d.device_name = "A"
    /\ DailyDocs # {}

\* C5: a successful daily aggregation run leaves exactly one summary document
\* for each calendar day with at least one valid input row, none for any other
\* day, and each document's per-phase values are the sums of that phase's
\* current over the day's rows.
C5_OneDocPerInputDay ==
    last_aggregate.outcome = "inserted" =>
        /\ {d.date : d \in DailyDocs} = {Midnight(day) : day \in InputDays}
        /\ BagCardinality(daily_consumption_collection) = Cardinality(InputDays)
        /\ \A d \in DailyDocs :
               /\ d.sum_CT_R_A = PhaseSum(DayOf(d.date), "ct_r (a)")
               /\ d.sum_CT_Y_A = PhaseSum(DayOf(d.date), "ct_y (a)")
               /\ d.sum_CT_B_A = PhaseSum(DayOf(d.date), "ct_b (a)")

\* C6: in every document of a successful daily aggregation run,
\* total_kWh = S * 230 / 1000 / 60 with S the day's total of ct_r + ct_y + ct_b
\* over its rows (S = 1200 gives 4.6 = 46/10), and that is the sum of the rows'
\* own energy contributions.
C6_TotalKWhFormula ==
    last_aggregate.outcome = "inserted" =>
        \A d \in DailyDocs :
            LET S == DayAmps(DayOf(d.date))
            IN  /\ d.total_kWh * 60 = S * 230 * (KWhDen \div 1000)
                /\ d.total_kWh = DayEnergyRowByRow(DayOf(d.date))
                /\ (S = 1200 => d.total_kWh * 10 = 46 * KWhDen)

C6_Witness ==
    /\ last_aggregate.outcome = "inserted"
    /\ \E d \in DailyDocs :
           /\ DayAmps(DayOf(d.date)) = 1200
           /\ d.total_kWh * 10 = 46 * KWhDen
    /\ BagCardinality(daily_consumption_collection) >= 2

(***************************************************************************)
(* What the claims about the API read off a state.                         *)
(***************************************************************************)
\* the instant an ISO text of a response stands for
FromIso(iso) == ToMinutes(iso.y, iso.m, iso.d, iso.h, iso.mi)

\* the reading time of a processed document, under either spelling of the field
ReadingTime(d) == IF "timestamp" \in DOMAIN d THEN d["timestamp"] ELSE d["Timestamp"]

\* the documents of a response body with the instant under `field` read back
Unrender(body, field) ==
    [k \in 1..Len(body) |-> [body[k] EXCEPT ![field] = FromIso(@)]]

BodyTimes(field) == {FromIso(response.body[k][field]) : k \in 1..Len(response.body)}

Ascending(body, field) ==
    \A i, j \in 1..Len(body) : i < j => FromIso(body[i][field]) <= FromIso(body[j][field])

\* the part of a collection a predicate on documents selects, as a bag
Select(collection, docs) == [d \in docs |-> collection[d]]

\* a response element is the reading a transform-stage document holds
SameReading(r, d) ==
    /\ "timestamp" \in DOMAIN r
    /\ FromIso(r["timestamp"]) = d["Timestamp"]
    /\ r["device_name"] = d["device_name"]
    /\ r["ct_r (a)"] = d["CT_R (A)"]
    /\ r["ct_y (a)"] = d["CT_Y (A)"]
    /\ r["ct_b (a)"] = d["CT_B (A)"]
    /\ r["r_power(kw)"] = d["R_power(kW)"]
    /\ r["y_power(kw)"] = d["Y_power(kW)"]
    /\ r["b_power(kw)"] = d["B_power(kW)"]
    /\ r["total_power(kw)"] = d["Total_power(kW)"]

InsertedByTransform ==
    {d \in ProcessedDocs :
        CopiesIn(d, processed_data_collection) > CopiesIn(d, last_transform.before)}

WellFormedDate(p) == p.shaped /\ p.m \in 1..12 /\ p.d \in 1..DaysInMonth(p.y, p.m)
WellFormedTime(p) == p.shaped /\ p.h \in 0..23 /\ p.mi \in 0..59
MalformedDate(p) == p.kind = "text" /\ ~WellFormedDate(p)
MalformedTime(p) == p.kind = "text" /\ ~WellFormedTime(p)

\* the instant a well-formed date (and time, 00:00 when absent) names
Given(date, time) ==
    ToMinutes(date.y, date.m, date.d,
              IF time.kind = "text" THEN time.h ELSE 0,
              IF time.kind = "text" THEN time.mi ELSE 0)

StartGiven == request.start_date.kind = "text" /\ WellFormedDate(request.start_date)
EndGiven == request.end_date.kind = "text" /\ WellFormedDate(request.end_date)

\* C4: every reading a successful transform run has inserted for device D at
\* time T is returned by GET /processed for D, interval raw, with an explicit
\* range start <= T <= end.
C4_ApiServesTransformedReadings ==
    (/\ request.route = "/processed"
     /\ request.interval = "raw"
     /\ last_transform.outcome = "inserted"
     /\ StartGiven /\ EndGiven
     /\ ~MalformedTime(request.start_time) /\ ~MalformedTime(request.end_time)) =>
        \A d \in InsertedByTransform :
            (/\ d["device_name"] = request.device_name
             /\ Given(request.start_date, request.start_time) <= d["Timestamp"]
             /\ d["Timestamp"] <= Given(request.end_date, request.end_time)) =>
                /\ response.status = 200
                /\ \E k \in 1..Len(response.body) : SameReading(response.body[k], d)

\* C7: GET /processed with no date parameter answers 200 with exactly the
\* device's readings in [L - 24h, L], L the time of the device's most recent
\* reading in the processed collection, and with the empty list when the
\* device has no reading.
C7_ProcessedDefaultWindow ==
    (/\ request.route = "/processed"
     /\ request.start_date.kind = "none" /\ request.start_time.kind = "none"
     /\ request.end_date.kind = "none" /\ request.end_time.kind = "none") =>
        LET readings == OfDevice(processed_data_collection, request.device_name)
            L == SetMax({ReadingTime(d) : d \in readings})
        IN  /\ response.status = 200
            /\ readings = {} => response.body = <<>>
            /\ (readings # {} /\ request.interval = "raw") =>
                   /\ \A k \in 1..Len(response.body) : "timestamp" \in DOMAIN response.body[k]
                   /\ SeqToBag(Unrender(response.body, "timestamp"))
                          = Select(processed_data_collection,
                                   {d \in readings : /\ L - 24 * MinutesPerHour <= ReadingTime(d)
                                                     /\ ReadingTime(d) <= L})

\* C8: GET /daily-consumption with no date parameter answers 200 with exactly
\* the device's summaries dated in [L - 6 days, L], L the device's most recent
\* summary date, in ascending date order and over at most 7 calendar days, and
\* with the empty list when the device has no summary.
C8_DailyDefaultWindow ==
    (/\ request.route = "/daily-consumption"
     /\ request.start_date.kind = "none"
     /\ request.end_date.kind = "none") =>
        LET mine == OfDevice(daily_consumption_collection, request.device_name)
            L == SetMax({d.date : d \in mine})
        IN  /\ response.status = 200
            /\ mine = {} => response.body = <<>>
            /\ mine # {} =>
                   /\ SeqToBag(Unrender(response.body, "date"))
                          = Select(daily_consumption_collection,
                                   {d \in mine : L - 6 * MinutesPerDay <= d.date /\ d.date <= L})
                   /\ Ascending(response.body, "date")
                   /\ Cardinality({DayOf(t) : t \in BodyTimes("date")}) <= 7

C8_Witness ==
    /\ request.route = "/daily-consumption"
    /\ request.start_date.kind = "none"
    /\ request.end_date.kind = "none"
    /\ last_aggregate.outcome = "inserted"
    /\ Cardinality({DayOf(t) : t \in BodyTimes("date")}) = 7
    /\ \E d \in OfDevice(daily_consumption_collection, request.device_name) :
           \A t \in BodyTimes("date") : d.date < t

\* C9: a supplied valid start_date (end_date) bounds every returned document
\* from below (above), also when the other bound is omitted.
C9_SuppliedBoundRespected ==
    /\ (/\ request.route = "/processed"
        /\ request.interval = "raw"
        /\ response.status = 200) =>
           /\ (StartGiven /\ ~MalformedTime(request.start_time)) =>
                  \A t \in BodyTimes("timestamp") :
                      Given(request.start_date, request.start_time) <= t
           /\ (EndGiven /\ ~MalformedTime(request.end_time)) =>
                  \A t \in BodyTimes("timestamp") :
                      t <= Given(request.end_date, request.end_time)
    /\ (/\ request.route = "/daily-consumption"
        /\ response.status = 200) =>
           /\ StartGiven =>
                  \A t \in BodyTimes("date") : Given(request.start_date, TimeText(0, 0)) <= t
           /\ EndGiven =>
                  \A t \in BodyTimes("date") : t <= Given(request.end_date, TimeText(23, 59))

\* C10: a request with a supplied date or time parameter that does not match
\* YYYY-MM-DD / HH:MM is answered with status 400.
C10_MalformedParameterRejected ==
    /\ (/\ request.route = "/processed"
        /\ \/ MalformedDate(request.start_date) \/ MalformedTime(request.start_time)
           \/ MalformedDate(request.end_date) \/ MalformedTime(request.end_time)) =>
           response.status = 400
    /\ (/\ request.route = "/daily-consumption"
        /\ (MalformedDate(request.start_date) \/ MalformedDate(request.end_date))) =>
           response.status = 400

(***************************************************************************)
(* Explicit ranges: raw and bucketed readings.                             *)
(***************************************************************************)
\* both ends of the range are supplied and well formed
ExplicitRange ==
    /\ StartGiven /\ EndGiven
    /\ ~MalformedTime(request.start_time) /\ ~MalformedTime(request.end_time)

RangeStart == Given(request.start_date, request.start_time)
RangeEnd == Given(request.end_date, request.end_time)

\* the readings of the requested device taken inside the requested range
ReadingsInRange ==
    {d \in OfDevice(processed_data_collection, request.device_name) :
        RangeStart <= ReadingTime(d) /\ ReadingTime(d) <= RangeEnd}

\* C11: GET /processed, interval raw, explicit start and end answers 200 with
\* exactly the device's readings taken at start <= t <= end, both ends
\* included and no other device's reading, ascending by timestamp, and with
\* the empty list when there is none.
C11_RawExplicitRange ==
    (/\ request.route = "/processed"
     /\ request.interval = "raw"
     /\ ExplicitRange) =>
        /\ response.status = 200
        /\ \A k \in 1..Len(response.body) : "timestamp" \in DOMAIN response.body[k]
        /\ SeqToBag(Unrender(response.body, "timestamp"))
               = Select(processed_data_collection, ReadingsInRange)
        /\ Ascending(response.body, "timestamp")
        /\ ReadingsInRange = {} => response.body = <<>>

\* the bucket width of an interval, in minutes
WidthMinutes(interval) ==
    CASE interval = "1hr" -> 60
      [] interval = "4hr" -> 240
      [] interval = "8hr" -> 480
      [] interval = "12hr" -> 720
      [] interval = "24hr" -> 1440

\* the value a reading holds for a numeric field of the response, under either
\* spelling of the stored field
ReadingField(d, f) ==
    IF f \in DOMAIN d THEN d[f]
    ELSE CASE f = "ct_r (a)" -> d["CT_R (A)"]
           [] f = "ct_y (a)" -> d["CT_Y (A)"]
           [] f = "ct_b (a)" -> d["CT_B (A)"]
           [] f = "r_power(kw)" -> d["R_power(kW)"]
           [] f = "y_power(kw)" -> d["Y_power(kW)"]
           [] f = "b_power(kw)" -> d["B_power(kW)"]
           [] f = "total_power(kw)" -> d["Total_power(kW)"]

NumericFields == {"ct_r (a)", "ct_y (a)", "ct_b (a)", "r_power(kw)", "y_power(kw)",
                  "b_power(kw)", "total_power(kw)"}

\* the in-range readings of the bucket starting at b, and their number and the
\* total of a field over them, copies counted
BucketReadings(b, w) == {d \in ReadingsInRange : (ReadingTime(d) \div w) * w = b}

RECURSIVE ReadingCount(_)
ReadingCount(S) ==
    IF S = {} THEN 0
    ELSE LET d == CHOOSE x \in S : TRUE
         IN  CopiesIn(d, processed_data_collection) + ReadingCount(S \ {d})

RECURSIVE ReadingTotal(_, _)
ReadingTotal(S, f) ==
    IF S = {} THEN 0
    ELSE LET d == CHOOSE x \in S : TRUE
         IN  ReadingField(d, f) * CopiesIn(d, processed_data_collection)
                 + ReadingTotal(S \ {d}, f)

\* C12: GET /processed with a bucketed interval of width w and an explicit
\* range answers 200 with exactly one entry per w-hour bucket (aligned by
\* truncation) holding an in-range reading of the device; the entry's
\* timestamp is the bucket start, each numeric field is the mean over the
\* bucket's in-range readings, and the entries ascend by bucket start.
C12_BucketedMeans ==
    (/\ request.route = "/processed"
     /\ request.interval # "raw"
     /\ ExplicitRange) =>
        LET w == WidthMinutes(request.interval)
            starts == {(ReadingTime(d) \div w) * w : d \in ReadingsInRange}
            body == response.body
        IN  /\ response.status = 200
            /\ Len(body) = Cardinality(starts)
            /\ \A k \in 1..Len(body) : FromIso(body[k]["timestamp"]) \in starts
            /\ \A i, j \in 1..Len(body) :
                   i < j => FromIso(body[i]["timestamp"]) < FromIso(body[j]["timestamp"])
            /\ \A k \in 1..Len(body) : \A f \in NumericFields :
                   LET members == BucketReadings(FromIso(body[k]["timestamp"]), w)
                   IN  /\ body[k][f].den > 0
                       /\ body[k][f].num * ReadingCount(members)
                              = body[k][f].den * ReadingTotal(members, f)

(***************************************************************************)
(* GET /devices.                                                           *)
(***************************************************************************)
\* device names in the stores of this part of the model, and their code points
DeviceNames == {"A", "AB", "B", "a"}

CodePoints(name) ==
    CASE name = "A" -> <<65>>
      [] name = "AB" -> <<65, 66>>
      [] name = "B" -> <<66>>
      [] name = "a" -> <<97>>
      [] OTHER -> <<>>

\* str.__lt__: code point by code point, a proper prefix first
RECURSIVE StrLess(_, _)
StrLess(s, t) ==
    IF t = <<>> THEN FALSE
    ELSE IF s = <<>> THEN TRUE
    ELSE IF s[1] # t[1] THEN s[1] < t[1]
    ELSE StrLess(Tail(s), Tail(t))

\* collection.distinct(field): the values of the field, each once
distinct(collection, field) ==
    {d[field] : d \in {x \in BagToSet(collection) : field \in DOMAIN x}}

\* set(names1 + names2)
unique_names_FirstOnly(names1, names2) == names1
unique_names(names1, names2) == names1 \cup names2

\* sorted(list(names))
RECURSIVE sorted(_)
sorted(names) ==
    IF names = {} THEN <<>>
    ELSE LET least == CHOOSE n \in names :
                          \A m \in names \ {n} : StrLess(CodePoints(n), CodePoints(m))
         IN  <<least>> \o sorted(names \ {least})

\* a store failure during either distinct() is answered 500
DevicesFaults == {NoFault, [at |-> "distinct", k |-> 0]}

get_device_names_response(processed, daily, fault) ==
    IF fault.at = "distinct" THEN HttpError(500)
    ELSE [status |-> 200,
          body |-> sorted(unique_names(distinct(processed, "device_name"),
                                       distinct(daily, "device_name")))]

get_device_names(fault) ==
    /\ request = NoRequest
    /\ request' = [route |-> "/devices"]
    /\ response' = get_device_names_response(processed_data_collection,
                                             daily_consumption_collection, fault)
    /\ UNCHANGED <<sensor_data_csv, DEVICE_NAME, processed_data_collection,
                   daily_consumption_collection, last_transform, last_aggregate,
                   etl_run, api_call>>

DevicesProcessed ==
    {EmptyBag,
     SetToBag({LegacyDoc(0, 1, "a"), LegacyDoc(MinutesPerHour, 2, "B")}),
     SetToBag({LegacyDoc(0, 1, "AB"), LegacyDoc(MinutesPerHour, 1, "AB")})
         (+) SetToBag({LegacyDoc(0, 1, "AB")})}

DevicesDaily ==
    {EmptyBag,
     SetToBag({PriorDailyDoc(0, 1, "A"), PriorDailyDoc(1, 1, "a")}),
     SetToBag({PriorDailyDoc(0, 1, "B"), PriorDailyDoc(1, 2, "B"), PriorDailyDoc(0, 1, "AB")})}

InitDevices ==
    /\ sensor_data_csv \in SystemFiles
    /\ DEVICE_NAME \in DeviceNames
    /\ processed_data_collection \in DevicesProcessed
    /\ daily_consumption_collection \in DevicesDaily
    /\ last_transform = NoRun
    /\ last_aggregate = NoRun
    /\ request = NoRequest
    /\ response = NoResponse
    /\ etl_run = NoEtlRun
    /\ api_call = NoCall

NextDevices ==
    \/ transform_and_load(NoFault)
    \/ aggregate_and_load_daily(NoFault)
    \/ \E fault \in DevicesFaults : get_device_names(fault)

SpecDevices == InitDevices /\ [][NextDevices]_vars

\* the device names either collection holds
StoredNames ==
    {d["device_name"] : d \in ProcessedDocs} \cup {d["device_name"] : d \in DailyDocs}

\* C13: GET /devices answers with the device names found in the processed
\* collection or in the daily summary collection: each such name exactly once,
\* no other name, in ascending case-sensitive (code point) order.
C13_DevicesUnionSorted ==
    (request.route = "/devices" /\ response.status = 200) =>
        /\ Range(response.body) = StoredNames
        /\ Len(response.body) = Cardinality(StoredNames)
        /\ \A i, j \in 1..Len(response.body) :
               i < j => StrLess(CodePoints(response.body[i]), CodePoints(response.body[j]))

C13_Witness ==
    /\ request.route = "/devices"
    /\ response.status = 200
    /\ response.body = <<"A", "AB", "B", "a">>
    /\ last_transform.outcome = "inserted"
    /\ \E n \in StoredNames : n \notin distinct(processed_data_collection, "device_name")
    /\ \E n \in StoredNames : n \notin distinct(daily_consumption_collection, "device_name")

(***************************************************************************)
(* An ETL run step by step: the environment check, MongoClient(...), the    *)
(* ping, the reading and shaping of the raw file, delete_many (daily stage  *)
(* only), insert_many, and the finally block.  Other processes' store       *)
(* operations can fall between two steps.                                   *)
(***************************************************************************)
Stages == {"transform", "aggregate"}

\* the collection a stage writes
StageCollection(stage) ==
    IF stage = "transform" THEN processed_data_collection ELSE daily_consumption_collection

\* client.close()
close_Skipped(client) == client
close(client) == "closed"

\* the run returns: it becomes the stage's latest run
RunEnds(run) ==
    /\ etl_run' = [run EXCEPT !.pc = "done"]
    /\ IF run.stage = "transform"
       THEN /\ last_transform' =
                   RunRecord(last_transform, run.fault, run.outcome, run.before)
            /\ UNCHANGED last_aggregate
       ELSE /\ last_aggregate' =
                   RunRecord(last_aggregate, run.fault, run.outcome, run.before)
            /\ UNCHANGED last_transform

\* load_dotenv, the environment check and `client = None`
run_start(stage, fault) ==
    LET run == [NoEtlRun EXCEPT !.stage = stage, !.fault = fault,
                                !.before = StageCollection(stage)]
    IN  /\ etl_run.pc \in {"idle", "done"}
        /\ last_transform.runs + last_aggregate.runs < MaxRuns
        /\ IF DEVICE_NAME = ""
           THEN RunEnds([run EXCEPT !.outcome = "no_env"])
           ELSE /\ etl_run' = [run EXCEPT !.pc = "connect"]
                /\ UNCHANGED <<last_transform, last_aggregate>>
        /\ UNCHANGED <<sensor_data_csv, DEVICE_NAME, processed_data_collection,
                       daily_consumption_collection, request, response, api_call>>

\* client = MongoClient(mongo_uri, tlsCAFile=ca)
run_connect ==
    /\ etl_run.pc = "connect"
    /\ etl_run' = [etl_run EXCEPT !.client = "open", !.opened = @ + 1, !.pc = "ping"]
    /\ UNCHANGED <<sensor_data_csv, DEVICE_NAME, processed_data_collection,
                   daily_consumption_collection, last_transform, last_aggregate,
                   request, response, api_call>>

\* client.admin.command('ping')
run_ping ==
    /\ etl_run.pc = "ping"
    /\ etl_run' = IF etl_run.fault.at = "ping"
                  THEN [etl_run EXCEPT !.outcome = "error", !.pc = "finally"]
                  ELSE [etl_run EXCEPT !.pc = "read"]
    /\ UNCHANGED <<sensor_data_csv, DEVICE_NAME, processed_data_collection,
                   daily_consumption_collection, last_transform, last_aggregate,
                   request, response, api_call>>

\* pd.read_csv and the shaping up to data_to_insert
run_read ==
    LET plan == IF etl_run.stage = "transform"
                THEN TransformPlan(sensor_data_csv, DEVICE_NAME, etl_run.fault)
                ELSE AggregatePlan(sensor_data_csv, DEVICE_NAME, etl_run.fault)
    IN  /\ etl_run.pc = "read"
        /\ etl_run' =
               IF plan.outcome = "ready"
               THEN [etl_run EXCEPT !.docs = plan.docs,
                        !.pc = IF etl_run.stage = "aggregate" THEN "delete" ELSE "insert"]
               ELSE [etl_run EXCEPT !.outcome = plan.outcome, !.pc = "finally"]
        /\ UNCHANGED <<sensor_data_csv, DEVICE_NAME, processed_data_collection,
                       daily_consumption_collection, last_transform, last_aggregate,
                       request, response, api_call>>

\* collection.delete_many({}) of the daily stage
run_delete ==
    /\ etl_run.pc = "delete"
    /\ IF etl_run.fault.at = "delete"
       THEN /\ etl_run' = [etl_run EXCEPT !.outcome = "error", !.pc = "finally"]
            /\ UNCHANGED daily_consumption_collection
       ELSE /\ etl_run' = [etl_run EXCEPT !.pc = "insert"]
            /\ daily_consumption_collection' = delete_many(daily_consumption_collection)
    /\ UNCHANGED <<sensor_data_csv, DEVICE_NAME, processed_data_collection,
                   last_transform, last_aggregate, request, response, api_call>>

\* collection.insert_many(data_to_insert)
run_insert ==
    LET stored == insert_many(StageCollection(etl_run.stage), etl_run.docs,
                              Accepted(etl_run.fault, etl_run.docs))
    IN  /\ etl_run.pc = "insert"
        /\ etl_run' = [etl_run EXCEPT !.pc = "finally",
                          !.outcome = IF etl_run.fault.at = "insert"
                                      THEN "error" ELSE "inserted"]
        /\ IF etl_run.stage = "transform"
           THEN /\ processed_data_collection' = stored
                /\ UNCHANGED daily_consumption_collection
           ELSE /\ daily_consumption_collection' = stored
                /\ UNCHANGED processed_data_collection
        /\ UNCHANGED <<sensor_data_csv, DEVICE_NAME, last_transform, last_aggregate,
                       request, response, api_call>>

\* finally: if client: client.close(); then the run returns
run_finally ==
    /\ etl_run.pc = "finally"
    /\ RunEnds(IF etl_run.client = "None" THEN etl_run
               ELSE [etl_run EXCEPT !.client = close(@), !.closed = @ + 1])
    /\ UNCHANGED <<sensor_data_csv, DEVICE_NAME, processed_data_collection,
                   daily_consumption_collection, request, response, api_call>>

\* the steps of a run that has started
RunStep ==
    \/ run_connect
    \/ run_ping
    \/ run_read
    \/ run_delete
    \/ run_insert
    \/ run_finally

(***************************************************************************)
(* SpecRuns: runs of both stages step by step, over raw files that take     *)
(* every exit path and under every store failure.  A started run is a       *)
(* sequential program that keeps executing: weak fairness of its steps.     *)
(***************************************************************************)
RunFiles ==
    {NoFile,
     [exists |-> TRUE, cols |-> StdCols, rows |-> GoodRows],
     [exists |-> TRUE, cols |-> LowerCols, rows |-> GoodRows],
     [exists |-> TRUE, cols |-> StdCols, rows |-> <<<<NaN, 1, 2, 3>>>>],
     [exists |-> TRUE, cols |-> StdCols, rows |-> <<<<BadText, 1, 2, 3>>>>],
     [exists |-> TRUE, cols |-> NoPhaseCols, rows |-> <<<<0, 1, 2>>>>]}

InitRuns ==
    /\ sensor_data_csv \in RunFiles
    /\ DEVICE_NAME \in {"A", ""}
    /\ processed_data_collection = EmptyBag
    /\ daily_consumption_collection \in PriorDaily
    /\ last_transform = NoRun
    /\ last_aggregate = NoRun
    /\ request = NoRequest
    /\ response = NoResponse
    /\ etl_run = NoEtlRun
    /\ api_call = NoCall

NextRuns ==
    \/ \E stage \in Stages, fault \in Faults : run_start(stage, fault)
    \/ RunStep

SpecRuns == InitRuns /\ [][NextRuns]_vars /\ WF_vars(RunStep)

\* C14: in both ETL stages a run that has opened a store connection closes it
\* before the run ends, exactly once, on every exit path; no run ends with an
\* open connection.
C14_ConnectionClosedOnEveryExit ==
    /\ [](etl_run.pc = "done" =>
              /\ etl_run.client # "open"
              /\ etl_run.closed = etl_run.opened)
    /\ [](etl_run.closed <= 1)
    /\ (etl_run.client = "open") ~> (etl_run.pc = "done" /\ etl_run.client = "closed")

C14_Witness ==
    /\ etl_run.pc = "done"
    /\ etl_run.stage = "aggregate"
    /\ etl_run.outcome = "key_error"
    /\ etl_run.opened = 1
    /\ etl_run.closed = 1
    /\ etl_run.client = "closed"
    /\ last_transform.outcome = "error"

(***************************************************************************)
(* Failure handling of the two stages.                                     *)
(***************************************************************************)
\* the raw file lacks a column the stage reads (header as the stage sees it)
MissingColumn(cols, required) == \E c \in required : c \notin Range(cols)

\* the daily stage finds nothing to aggregate: no file, a column missing, or
\* no complete row
DailyInputStops ==
    \/ ~sensor_data_csv.exists
    \/ MissingColumn(NormalizedColumns(sensor_data_csv.cols),
                     {"timestamp", "ct_r (a)", "ct_y (a)", "ct_b (a)"})
    \/ ValidRows = <<>>

\* C15: a daily aggregation run that stops because of its input (file
\* missing, expected column missing, nothing left after cleaning) leaves the
\* daily summary collection exactly as it was before the run: neither cleared
\* nor written.
C15_InputStopIsNoOp ==
    (last_aggregate.runs >= 1 /\ DailyInputStops) =>
        /\ daily_consumption_collection = last_aggregate.before
        /\ last_aggregate.outcome # "inserted"

C15_Witness ==
    /\ last_aggregate.runs = 2
    /\ DEVICE_NAME # ""
    /\ last_aggregate.fault = NoFault
    /\ last_aggregate.outcome = "key_error"
    /\ sensor_data_csv.cols = NoPhaseCols
    /\ BagCardinality(last_aggregate.before) = 4
    /\ daily_consumption_collection = last_aggregate.before

\* the latest daily run reached insert_many after clearing, and insert_many
\* failed before storing a document
FailedBetweenClearAndInsert ==
    /\ last_aggregate.runs >= 1
    /\ DEVICE_NAME # ""
    /\ ~DailyInputStops
    /\ \A k \in 1..Len(sensor_data_csv.rows) : Cell(sensor_data_csv.rows[k], "timestamp") # BadText
    /\ last_aggregate.fault = [at |-> "insert", k |-> 0]

\* C16: when the daily stage fails after delete_many has cleared the daily
\* summary collection and before insert_many has stored anything, the run ends
\* with the collection empty; what it held before is not restored.
C16_NoRollbackAfterClear ==
    FailedBetweenClearAndInsert =>
        /\ daily_consumption_collection = EmptyBag
        /\ last_aggregate.outcome = "error"

C16_Witness ==
    /\ FailedBetweenClearAndInsert
    /\ BagCardinality(last_aggregate.before) = 4
    /\ daily_consumption_collection = EmptyBag
    /\ Cardinality(InputDays) >= 2

PowerFields == {"R_power(kW)", "Y_power(kW)", "B_power(kW)", "Total_power(kW)"}

\* C17: a transform run on a missing raw file, or on a file lacking the
\* timestamp or one of the three current columns, leaves the processed
\* collection as it was; and no document a run inserts has a null or absent
\* derived power field.
C17_TransformAbortsWithoutWrite ==
    /\ (/\ last_transform.runs >= 1
        /\ \/ ~sensor_data_csv.exists
           \/ MissingColumn(sensor_data_csv.cols,
                            {"Timestamp", "CT_R (A)", "CT_Y (A)", "CT_B (A)"})) =>
           /\ processed_data_collection = last_transform.before
           /\ last_transform.outcome # "inserted"
    /\ last_transform.runs >= 1 =>
           \A d \in InsertedByTransform : \A f \in PowerFields :
               f \in DOMAIN d /\ d[f] # NaN

C17_Witness ==
    /\ last_transform.runs = 2
    /\ DEVICE_NAME # ""
    /\ last_transform.fault = NoFault
    /\ sensor_data_csv.cols = NoPhaseCols
    /\ last_transform.outcome = "error"
    /\ last_transform.before # EmptyBag
    /\ processed_data_collection = last_transform.before

(***************************************************************************)
(* A request step by step: the parsing and the latest-document lookup      *)
(* (find_one), then the range query.  The two are separate store           *)
(* operations; steps of an ETL run can fall between them.                  *)
(***************************************************************************)
CallDone == [phase |-> "done", start_dt |-> 0, end_dt |-> 0]
CallRange(start_dt, end_dt) == [phase |-> "range", start_dt |-> start_dt, end_dt |-> end_dt]

\* get_processed_data up to the range it will query
get_processed_data_lookup(q) ==
    LET start_dt == parse_datetime_input(q.start_date, q.start_time)
        end_dt == parse_datetime_input(q.end_date, q.end_time)
        latest == find_one(processed_data_collection, q.device_name, "timestamp")
    IN  /\ api_call.phase = "idle"
        /\ request' = q
        /\ IF start_dt.tag = "http400" \/ end_dt.tag = "http400"
           THEN response' = HttpError(400) /\ api_call' = CallDone
           ELSE IF start_dt.tag = "dt" /\ end_dt.tag = "dt"
           THEN response' = NoResponse /\ api_call' = CallRange(start_dt.t, end_dt.t)
           ELSE IF latest = {}
           THEN response' = [status |-> 200, body |-> <<>>] /\ api_call' = CallDone
           ELSE \E latest_doc \in latest :
                    IF "timestamp" \in DOMAIN latest_doc
                    THEN /\ response' = NoResponse
                         /\ api_call' =
                                CallRange(DefaultProcessedStart(latest_doc["timestamp"]),
                                          latest_doc["timestamp"])
                    ELSE response' = HttpError(500) /\ api_call' = CallDone
        /\ UNCHANGED <<sensor_data_csv, DEVICE_NAME, processed_data_collection,
                       daily_consumption_collection, last_transform, last_aggregate,
                       etl_run>>

\* get_processed_data from match_query on
get_processed_data_query ==
    /\ api_call.phase = "range"
    /\ request.route = "/processed"
    /\ response' \in ProcessedRange(processed_data_collection, request,
                                    api_call.start_dt, api_call.end_dt)
    /\ api_call' = [api_call EXCEPT !.phase = "done"]
    /\ UNCHANGED <<sensor_data_csv, DEVICE_NAME, processed_data_collection,
                   daily_consumption_collection, last_transform, last_aggregate,
                   request, etl_run>>

\* get_daily_consumption up to the range it will query
get_daily_consumption_lookup(q) ==
    LET start_dt == parse_datetime_input(q.start_date, TimeText(0, 0))
        end_dt == parse_datetime_input(q.end_date, TimeText(23, 59))
        latest == find_one(daily_consumption_collection, q.device_name, "date")
    IN  /\ api_call.phase = "idle"
        /\ request' = q
        /\ IF start_dt.tag = "http400" \/ end_dt.tag = "http400"
           THEN response' = HttpError(400) /\ api_call' = CallDone
           ELSE IF start_dt.tag = "dt" /\ end_dt.tag = "dt"
           THEN response' = NoResponse /\ api_call' = CallRange(start_dt.t, end_dt.t)
           ELSE IF latest = {}
           THEN response' = [status |-> 200, body |-> <<>>] /\ api_call' = CallDone
           ELSE \E latest_doc \in latest :
                    IF "date" \in DOMAIN latest_doc
                    THEN /\ response' = NoResponse
                         /\ api_call' = CallRange(DefaultDailyStart(latest_doc["date"]),
                                                  latest_doc["date"])
                    ELSE response' = HttpError(500) /\ api_call' = CallDone
        /\ UNCHANGED <<sensor_data_csv, DEVICE_NAME, processed_data_collection,
                       daily_consumption_collection, last_transform, last_aggregate,
                       etl_run>>

\* get_daily_consumption from query on
get_daily_consumption_query ==
    /\ api_call.phase = "range"
    /\ request.route = "/daily-consumption"
    /\ response' \in DailyRange(daily_consumption_collection, request,
                                api_call.start_dt, api_call.end_dt)
    /\ api_call' = [api_call EXCEPT !.phase = "done"]
    /\ UNCHANGED <<sensor_data_csv, DEVICE_NAME, processed_data_collection,
                   daily_consumption_collection, last_transform, last_aggregate,
                   request, etl_run>>

(***************************************************************************)
(* SpecConcurrent: one request served while ETL runs go through their      *)
(* steps.                                                                  *)
(***************************************************************************)
ConcurrentProcessedRequests ==
    {[route |-> "/processed", device_name |-> dev, start_date |-> NoDate,
      start_time |-> NoTime, end_date |-> ed, end_time |-> NoTime, interval |-> i] :
        dev \in Devices, ed \in {NoDate, DateText(2024, 2, 30)}, i \in {"raw", "4hr"}}
    \cup
    {[route |-> "/processed", device_name |-> dev, start_date |-> DateText(2024, 1, 1),
      start_time |-> NoTime, end_date |-> DateText(2024, 1, 2), end_time |-> NoTime,
      interval |-> "raw"] : dev \in Devices}

ConcurrentDailyRequests ==
    {[route |-> "/daily-consumption", device_name |-> dev, start_date |-> sd,
      end_date |-> ed] :
        dev \in Devices,
        sd \in {NoDate, DateText(2024, 1, 1)}, ed \in {NoDate, DateText(2024, 1, 9), SlashDate}}

InitConcurrent ==
    /\ sensor_data_csv \in SystemFiles
    /\ DEVICE_NAME \in Devices
    /\ \E store \in PriorStores :
           /\ processed_data_collection = store[1]
           /\ daily_consumption_collection = store[2]
    /\ last_transform = NoRun
    /\ last_aggregate = NoRun
    /\ request = NoRequest
    /\ response = NoResponse
    /\ etl_run = NoEtlRun
    /\ api_call = NoCall

NextConcurrent ==
    \/ \E stage \in Stages : run_start(stage, NoFault)
    \/ RunStep
    \/ \E q \in ConcurrentProcessedRequests : get_processed_data_lookup(q)
    \/ get_processed_data_query
    \/ \E q \in ConcurrentDailyRequests : get_daily_consumption_lookup(q)
    \/ get_daily_consumption_query

SpecConcurrent == InitConcurrent /\ [][NextConcurrent]_vars /\ WF_vars(RunStep)

\* a request with no date parameter at all
NoDateGiven ==
    /\ request.start_date.kind = "none"
    /\ request.end_date.kind = "none"

\* every element of the response is of the requested device and inside the
\* window the lookup computed
BodyInsideWindow(field) ==
    \A k \in 1..Len(response.body) :
        /\ response.body[k]["device_name"] = request.device_name
        /\ api_call.start_dt <= FromIso(response.body[k][field])
        /\ FromIso(response.body[k][field]) <= api_call.end_dt

\* C18: a default-range GET /processed or GET /daily-consumption, with any
\* steps of ETL runs (clear, insert) between its latest-document lookup and
\* its range query, completes with status 200 and a list whose every element
\* is of the requested device and inside the window computed by the lookup.
C18_DefaultRangeUnderInterleaving ==
    (/\ api_call.phase = "done"
     /\ request.route \in {"/processed", "/daily-consumption"}
     /\ NoDateGiven) =>
        /\ response.status = 200
        /\ request.route = "/daily-consumption" => BodyInsideWindow("date")
        /\ (request.route = "/processed" /\ request.interval = "raw") =>
               BodyInsideWindow("timestamp")

====
